---- MODULE Spec2Model ----
(***************************************************************************)
(* Model of src/src/OpusEncoder/opus_frame_encoder.c: the encoder-context  *)
(* wrapper (create / get_frame_size / encode / destroy / set_bitrate /     *)
(* set_complexity) around the external Opus codec engine.                  *)
(*                                                                         *)
(* The heap of contexts (malloc/free) and the engine's encoder instances   *)
(* are explicit state.  The engine is external to the repository: it is    *)
(* modelled as a black box that keeps its documented interface (status     *)
(* codes, instance or none, argument validation, a per-instance state that *)
(* encode and ctl read and write).  The definitions named Engine* are that *)
(* black box; everything else is translated from the C source.             *)
(***************************************************************************)
EXTENDS Integers, Sequences, FiniteSets, TLC

\* ------------------------------------------------------------------ bounds

\* Context addresses malloc can hand out (heap capacity for contexts).
MaxCtx == 2
\* Encoder instances the engine can hold allocated at once.
MaxEnc == 3
\* Calls of the exported entry points in one behaviour.
MaxCalls == 4
\* Calls in one behaviour of a caller that runs two contexts side by side: the
\* two creates and five calls on each context.
MaxTwinCalls == 12

\* ------------------------------------------------------- program constants

NULL == 0
INT_MAX == 2147483647
SizeofInt16 == 2
WrapperError == -1
OPUS_OK == 0
OPUS_BAD_ARG == -1
OPUS_BUFFER_TOO_SMALL == -2
OPUS_INTERNAL_ERROR == -3
OPUS_ALLOC_FAIL == -7
OPUS_AUTO == -1000
OPUS_BITRATE_MAX == -1
OPUS_SET_BITRATE_REQUEST == 4002
OPUS_SET_COMPLEXITY_REQUEST == 4010
OPUS_APPLICATION_VOIP == 2048
OPUS_APPLICATION_AUDIO == 2049
DefaultComplexity == 9

EncIds == 1..MaxEnc

\* ------------------------------------------------------------ input sets

ValidRates == {8000, 12000, 16000, 24000, 48000}
\* create's arguments for a caller that uses the sample rates `rates`: every
\* supported configuration at those rates, and calls with an unsupported
\* sample rate, channel count or application profile.
CreateArgs(rates) ==
    {<<r, c, OPUS_APPLICATION_AUDIO>> : r \in rates, c \in {1, 2}}
    \cup {<<48000, 1, OPUS_APPLICATION_VOIP>>,
          <<44100, 1, OPUS_APPLICATION_AUDIO>>,
          <<48000, 0, OPUS_APPLICATION_AUDIO>>,
          <<48000, 1, 0>>}
\* The widths of size_t the program can be built with: 32 bits (wasm32, the
\* Emscripten default) or 64 bits (wasm64, or a native 64-bit build).
SizeTBits == {32, 64}
\* The scopes of a behaviour: the build's size_t width, the number of calls, and
\* a caller that holds up to MaxCtx contexts at two sample rates, or one
\* context at a time at any supported rate.
Scopes ==
    {[slots |-> MaxCtx, rates |-> {8000, 48000}, size_t_bits |-> b,
      calls |-> MaxCalls] : b \in SizeTBits}
    \cup {[slots |-> 1, rates |-> ValidRates, size_t_bits |-> b,
           calls |-> MaxCalls] : b \in SizeTBits}
\* The scopes of a caller that runs two contexts side by side (see SpecTwins).
TwinScopes ==
    {[slots |-> 2, rates |-> {16000}, size_t_bits |-> b,
      calls |-> MaxTwinCalls] : b \in SizeTBits}
Bitrates == {6000, 64000, 0}
Complexities == {10, 11}
\* encode's arguments <<pcm_data, pcm_length, output_buffer, output_buffer_size>>
\* for a canonical frame of `frame` bytes: the canonical call, and calls with
\* a null buffer, a small output capacity, or another byte length (zero, odd,
\* negative).
EncodeArgs(frame) ==
    {<<1, frame, 1, 4000>>, <<NULL, frame, 1, 4000>>, <<1, frame, NULL, 4000>>,
     <<1, frame, 1, 2>>}
    \cup {<<1, len, 1, 4000>> : len \in {0, 3, -1, -4}}

\* ------------------------------------------------------------ arithmetic

\* C's signed integer division: truncates toward zero.
CDiv(a, b) ==
    IF (a >= 0) = (b > 0) THEN (IF a >= 0 THEN a ELSE -a) \div (IF b > 0 THEN b ELSE -b)
    ELSE -((IF a >= 0 THEN a ELSE -a) \div (IF b > 0 THEN b ELSE -b))

\* A size_t value is kept as its base-65536 digits, most significant first
\* (two digits for a 32-bit size_t, four for a 64-bit one): a 64-bit value
\* does not fit a 32-bit integer.
Base == 65536

\* The conversion of an int to size_t: the value modulo 2^bits (a negative x
\* becomes x + 2^bits, its two's-complement digits with the sign extended).
ToSizeT(bits, x) ==
    [i \in 1..(bits \div 16) |->
        IF i = bits \div 16 THEN x % Base
        ELSE IF i = (bits \div 16) - 1 THEN (x \div Base) % Base
        ELSE IF x < 0 THEN Base - 1 ELSE 0]

\* Unsigned division of a size_t value by d, 0 < d < 32768: long division,
\* digit by digit, rem the remainder carried in from the digits to the left.
RECURSIVE LongDiv(_, _, _)
LongDiv(digits, d, rem) ==
    IF digits = <<>> THEN <<>>
    ELSE <<(rem * Base + Head(digits)) \div d>>
         \o LongDiv(Tail(digits), d, (rem * Base + Head(digits)) % d)

\* The conversion of a size_t value to int: its low 32 bits, read as a signed
\* two's-complement number.
ToInt(digits) ==
    LET hi == digits[Len(digits) - 1]
        lo == digits[Len(digits)]
    IN IF hi >= Base \div 2 THEN (hi - Base) * Base + lo ELSE hi * Base + lo

\* ------------------------------------------------- the codec engine (external)

\* opus_encoder_create accepts these arguments and no others.
EngineValidArgs(Fs, channels, application) ==
    /\ Fs \in ValidRates
    /\ channels \in {1, 2}
    /\ application \in {OPUS_APPLICATION_VOIP, OPUS_APPLICATION_AUDIO}

\* The state of a freshly constructed encoder instance.
EngineInit(Fs, channels, application) ==
    [Fs |-> Fs, channels |-> channels, application |-> application,
     bitrate |-> OPUS_AUTO, complexity |-> DefaultComplexity, frames |-> 0]

\* The state of an instance the engine allocated and then failed to initialise.
EngineFailedInit ==
    [Fs |-> 0, channels |-> 0, application |-> 0,
     bitrate |-> OPUS_AUTO, complexity |-> DefaultComplexity, frames |-> 0]

\* The instance state opus_encoder_create leaves behind for a given status.
EngineCreated(status, Fs, channels, application) ==
    IF status = OPUS_OK THEN EngineInit(Fs, channels, application)
    ELSE EngineFailedInit

\* What opus_encoder_create may hand back: <<status, instance>>, the instance one
\* of the engine's free slots or NULL.  Invalid arguments are always refused;
\* for both outputs every combination of success / failure status and
\* instance / no instance that the interface allows is possible.
EngineCreateOutcomes(Fs, channels, application, freeIds) ==
    IF EngineValidArgs(Fs, channels, application)
    THEN {<<OPUS_OK, e>> : e \in freeIds \cup {NULL}}
         \cup {<<OPUS_ALLOC_FAIL, NULL>>}
         \cup {<<OPUS_INTERNAL_ERROR, e>> : e \in freeIds}
    ELSE {<<OPUS_BAD_ARG, NULL>>}

\* Frame sizes opus_encode accepts: 2.5, 5, 10, 20, 40 or 60 ms at rate Fs.
EngineValidFrame(Fs, frame_size) ==
    \/ frame_size * 400 = Fs
    \/ frame_size * 200 = Fs
    \/ frame_size * 100 = Fs
    \/ frame_size * 50 = Fs
    \/ frame_size * 25 = Fs
    \/ frame_size * 50 = 3 * Fs

\* Size of the packet the engine wants to emit for one frame.
EnginePacketBytes(st, frame_size) ==
    IF st.bitrate \in {OPUS_AUTO, OPUS_BITRATE_MAX} THEN 80
    ELSE (st.bitrate * frame_size) \div (st.Fs * 8)

\* opus_encode on instance state st: the value returned, what is written to the
\* output buffer (<<>>: nothing) and the instance's next state.  The result is
\* a function of the instance state and the arguments only.
EngineEncode(st, pcm, frame_size, cap) ==
    IF frame_size > INT_MAX \div 400 \/ frame_size <= 0 \/ cap <= 0
         \/ ~EngineValidFrame(st.Fs, frame_size)
    THEN [ret |-> OPUS_BAD_ARG, out |-> <<>>, st |-> st]
    ELSE IF cap < EnginePacketBytes(st, frame_size)
    THEN [ret |-> OPUS_BUFFER_TOO_SMALL, out |-> <<>>, st |-> st]
    ELSE [ret |-> EnginePacketBytes(st, frame_size),
          out |-> <<pcm, st.bitrate, st.complexity, st.frames, st.application>>,
          st |-> [st EXCEPT !.frames = @ + 1]]

\* opus_encoder_ctl on instance state st: the status returned and the next
\* state.  An out-of-range value is refused and changes nothing.
EngineCtl(st, request, value) ==
    IF request = OPUS_SET_BITRATE_REQUEST
    THEN IF value > 0 \/ value \in {OPUS_AUTO, OPUS_BITRATE_MAX}
         THEN [ret |-> OPUS_OK, st |-> [st EXCEPT !.bitrate = value]]
         ELSE [ret |-> OPUS_BAD_ARG, st |-> st]
    ELSE IF request = OPUS_SET_COMPLEXITY_REQUEST
    THEN IF value >= 0 /\ value <= 10
         THEN [ret |-> OPUS_OK, st |-> [st EXCEPT !.complexity = value]]
         ELSE [ret |-> OPUS_BAD_ARG, st |-> st]
    ELSE [ret |-> OPUS_BAD_ARG, st |-> st]

\* ------------------------------------------------------------------ state

VARIABLES
    ctxs,    \* the live opus_encoder_context objects: address -> fields
    encs,    \* the engine's live encoder instances: instance -> engine state
    last,    \* the last call of an entry point: arguments, result, what it did
    fatal,   \* the process hit a fatal step (a trap) inside the wrapper
    nCalls,  \* calls made so far
    scope,   \* the caller's scope in this behaviour (see Scopes); never changes
    fresh,   \* observer: contexts not called on since create -> create's arguments
    twin     \* observer: a pair of contexts fed the same calls (see Observe)

vars == <<ctxs, encs, last, fatal, nCalls, scope, fresh, twin>>

\* malloc and the engine's allocator return some free slot; which one has no
\* bearing on the wrapper, and the model takes the lowest.
Lowest(S) == CHOOSE x \in S : \A y \in S : x <= y
FreeSlot(all, used) == IF all \ used = {} THEN {} ELSE {Lowest(all \ used)}

\* Extend / restrict a heap.
Put(heap, k, v) == [x \in DOMAIN heap \cup {k} |-> IF x = k THEN v ELSE heap[x]]
Drop(heap, k) == [x \in DOMAIN heap \ {k} |-> heap[x]]

\* The content of an output buffer nothing was written to.
Untouched == <<>>

\* The record of one engine call made by the wrapper.
EngCall(fn, e, a, ret) == [fn |-> fn, enc |-> e, a |-> a, ret |-> ret]

\* The record of one call of an entry point: eng the engine calls it made, in
\* order; rel what it released, in order; out what was written to the output
\* buffer (Untouched: nothing).
Call(op, h, a, ret, eng, rel, out) ==
    [op |-> op, h |-> h, a |-> a, ret |-> ret, eng |-> eng, rel |-> rel, out |-> out]

\* No pair of contexts is being compared.
NoTwin == [a |-> NULL, b |-> NULL, phase |-> "none",
           pend |-> Call("none", NULL, <<>>, 0, <<>>, <<>>, Untouched)]

\* The observer of pairs of runs.  It watches the calls and their results and
\* takes no part in them (the caller's scope is carried along unchanged).
\* When create returns a context b while a context a, created with the same
\* arguments, has not been called on yet, the two are
\* twins (phase "even").  A call on one twin is kept as pending (phase "odd");
\* the same call, with the same arguments, on the other twin brings the pair
\* back to "even"; any other call on a twin ends the comparison.  Calls on
\* other handles, on NULL, and further creates may come in between.
Observe ==
    LET c == last'
        created == c.op = "create" /\ c.ret # NULL
        alike == {q \in DOMAIN fresh : q \in DOMAIN ctxs' /\ fresh[q] = c.a}
    IN /\ fresh' = IF created THEN Put(fresh, c.ret, c.a)
                   ELSE Drop(fresh, c.h)
       /\ scope' = scope
       /\ twin' =
            IF twin.phase = "none"
            THEN IF created /\ alike # {}
                 THEN [a |-> Lowest(alike), b |-> c.ret, phase |-> "even",
                       pend |-> NoTwin.pend]
                 ELSE NoTwin
            ELSE IF created \/ c.h \notin {twin.a, twin.b} THEN twin
            ELSE IF c.op = "destroy" THEN NoTwin
            ELSE IF twin.phase = "even" THEN [twin EXCEPT !.phase = "odd", !.pend = c]
            ELSE IF c.h # twin.pend.h /\ c.op = twin.pend.op /\ c.a = twin.pend.a
                 THEN [twin EXCEPT !.phase = "even", !.pend = NoTwin.pend]
                 ELSE NoTwin

\* The state of the program before any call: no context, no engine instance.
Start ==
    /\ fresh = [x \in {} |-> <<>>]
    /\ twin = NoTwin
    /\ ctxs = [x \in {} |-> NULL]
    /\ encs = [x \in {} |-> NULL]
    /\ last = Call("none", NULL, <<>>, 0, <<>>, <<>>, Untouched)
    /\ fatal = FALSE
    /\ nCalls = 0

Init == scope \in Scopes /\ Start

\* A call can be made: the process is alive and the call budget is not used up.
CanCall == ~fatal /\ nCalls < scope.calls

\* Pointers a caller can pass as a handle: NULL or a context not yet destroyed.
HandleArgs == {NULL} \cup DOMAIN ctxs

\* -------------------------------------------------- opus_frame_encoder_create

\* Mutant: the engine's verdict is not checked.
CreateFails_Unchecked(error, encoder) == FALSE

\* Line 24: the test that sends create down its failure path.
CreateFails(error, encoder) == error # OPUS_OK \/ encoder = NULL

\* Mutant: a 10 ms frame.
FrameSizeOf_10ms(sample_rate) == CDiv(sample_rate, 100)

\* Line 32: the cached frame size, 20 ms of samples.
FrameSizeOf(sample_rate) == CDiv(sample_rate, 50)

\* Lines 29-32: the fields of a successfully constructed context.
NewContext(encoder, sample_rate, channels) ==
    [encoder |-> encoder, sample_rate |-> sample_rate, channels |-> channels,
     frame_size |-> FrameSizeOf(sample_rate)]

\* p is what malloc returned (a free address or NULL), eo what the engine's
\* constructor returned.
opus_frame_encoder_create(sample_rate, channels, application, p, eo) ==
    /\ CanCall
    /\ nCalls' = nCalls + 1
    /\ fatal' = fatal
    /\ IF p = NULL
       THEN /\ last' = Call("create", NULL, <<sample_rate, channels, application>>,
                            NULL, <<>>, <<>>, Untouched)
            /\ UNCHANGED <<ctxs, encs>>
       ELSE LET error == eo[1]
                encoder == eo[2]
                eng == <<EngCall("create", encoder,
                                 <<sample_rate, channels, application>>, error)>>
            IN /\ encs' = IF encoder = NULL THEN encs
                          ELSE Put(encs, encoder,
                                   EngineCreated(error, sample_rate, channels,
                                                 application))
               /\ IF CreateFails(error, encoder)
                  THEN /\ ctxs' = ctxs
                       /\ last' = Call("create", NULL,
                                       <<sample_rate, channels, application>>,
                                       NULL, eng, <<<<"ctx", p>>>>, Untouched)
                  ELSE /\ ctxs' = Put(ctxs, p,
                                      NewContext(encoder, sample_rate, channels))
                       /\ last' = Call("create", p,
                                       <<sample_rate, channels, application>>,
                                       p, eng, <<>>, Untouched)
    /\ Observe

Create ==
    \E args \in CreateArgs(scope.rates) :
      \E p \in {NULL} \cup FreeSlot(1..scope.slots, DOMAIN ctxs) :
        \E eo \in EngineCreateOutcomes(args[1], args[2], args[3],
                                       FreeSlot(EncIds, DOMAIN encs)) :
          opus_frame_encoder_create(args[1], args[2], args[3], p, eo)

\* -------------------------------------------- opus_frame_encoder_get_frame_size

\* Line 39.
opus_frame_encoder_get_frame_size(ctx) ==
    /\ CanCall
    /\ nCalls' = nCalls + 1
    /\ last' = Call("getFrameSize", ctx, <<>>,
                    IF ctx # NULL THEN ctxs[ctx].frame_size ELSE 0,
                    <<>>, <<>>, Untouched)
    /\ UNCHANGED <<ctxs, encs, fatal>>
    /\ Observe

GetFrameSize == \E ctx \in HandleArgs : opus_frame_encoder_get_frame_size(ctx)

\* ---------------------------------------------------------- opus_frame_encode

\* Mutant: the PCM pointer is not tested.
EncodeRejects_NoPcmCheck(ctx, pcm_data, output_buffer) ==
    ctx = NULL \/ ctxs[ctx].encoder = NULL \/ output_buffer = NULL

\* Line 50: the precondition test; evaluated left to right, so ctx->encoder is
\* read only for a non-null ctx.
EncodeRejects(ctx, pcm_data, output_buffer) ==
    ctx = NULL \/ ctxs[ctx].encoder = NULL \/ pcm_data = NULL \/ output_buffer = NULL

\* Mutant: the byte count is not divided by the channel count.
NumSamples_IgnoresChannels(size_t_bits, pcm_length, channels) ==
    ToInt(LongDiv(ToSizeT(size_t_bits, pcm_length), SizeofInt16, 0))

\* Line 55: int num_samples = pcm_length / sizeof(opus_int16) / ctx->channels.
\* sizeof yields a size_t, so pcm_length is converted to size_t, both divisions
\* are unsigned divisions in size_t (channels, 1 or 2 in a live context, is
\* converted too), and the quotient is converted back to int.
NumSamples(size_t_bits, pcm_length, channels) ==
    ToInt(LongDiv(LongDiv(ToSizeT(size_t_bits, pcm_length), SizeofInt16, 0),
                  channels, 0))

\* Mutant: engine failures are folded into the wrapper's own -1.
EncodeReturn_Remapped(encoded_bytes) ==
    IF encoded_bytes < 0 THEN WrapperError ELSE encoded_bytes

\* Line 66: what encode returns for the value the engine returned.
EncodeReturn(encoded_bytes) == encoded_bytes

\* Mutant: one encoder, kept in a static, serves every context.
EncoderOf_Shared(ctx) == Lowest(DOMAIN encs)

\* The engine instance the wrapper hands to the engine for context ctx.
EncoderOf(ctx) == ctxs[ctx].encoder

opus_frame_encode(ctx, pcm_data, pcm_length, output_buffer, output_buffer_size) ==
    /\ CanCall
    /\ nCalls' = nCalls + 1
    /\ LET a == <<pcm_data, pcm_length, output_buffer, output_buffer_size>>
       IN IF EncodeRejects(ctx, pcm_data, output_buffer)
          THEN /\ last' = Call("encode", ctx, a, WrapperError, <<>>, <<>>, Untouched)
               /\ UNCHANGED <<ctxs, encs, fatal>>
          ELSE IF ctxs[ctx].channels = 0
          THEN \* integer division by zero: the process traps
               /\ fatal' = TRUE
               /\ last' = Call("encode", ctx, a, 0, <<>>, <<>>, Untouched)
               /\ UNCHANGED <<ctxs, encs>>
          ELSE LET num_samples == NumSamples(scope.size_t_bits, pcm_length,
                                             ctxs[ctx].channels)
                   e == EncoderOf(ctx)
                   r == EngineEncode(encs[e], pcm_data, num_samples,
                                     output_buffer_size)
                   encoded_bytes == r.ret
               IN /\ encs' = [encs EXCEPT ![e] = r.st]
                  /\ last' = Call("encode", ctx, a, EncodeReturn(encoded_bytes),
                                  <<EngCall("encode", e,
                                            <<pcm_data, num_samples, output_buffer,
                                              output_buffer_size>>, r.ret)>>,
                                  <<>>, r.out)
                  /\ UNCHANGED <<ctxs, fatal>>
    /\ Observe

\* The canonical 20 ms frame of a context in bytes, frame_size * channels * 2
\* (with a null handle the caller has no context to size it by).
FrameBytes(ctx) ==
    IF ctx = NULL THEN 1920
    ELSE ctxs[ctx].frame_size * ctxs[ctx].channels * SizeofInt16

Encode ==
    \E ctx \in HandleArgs :
      \E args \in EncodeArgs(FrameBytes(ctx)) :
        opus_frame_encode(ctx, args[1], args[2], args[3], args[4])

\* ------------------------------------------------- opus_frame_encoder_destroy

\* Lines 71-76: what destroy releases, in order.
DestroyReleases(ctx) ==
    IF ctx = NULL THEN <<>>
    ELSE (IF ctxs[ctx].encoder # NULL THEN <<<<"enc", ctxs[ctx].encoder>>>> ELSE <<>>)
         \o <<<<"ctx", ctx>>>>

opus_frame_encoder_destroy(ctx) ==
    /\ CanCall
    /\ nCalls' = nCalls + 1
    /\ fatal' = fatal
    /\ LET rel == DestroyReleases(ctx)
           gone(kind) == {rel[i][2] : i \in {j \in 1..Len(rel) : rel[j][1] = kind}}
       IN /\ encs' = [x \in DOMAIN encs \ gone("enc") |-> encs[x]]
          /\ ctxs' = [x \in DOMAIN ctxs \ gone("ctx") |-> ctxs[x]]
          /\ last' = Call("destroy", ctx, <<>>, 0,
                          [i \in 1..Len(SelectSeq(rel, LAMBDA x : x[1] = "enc")) |->
                             EngCall("destroy", SelectSeq(rel, LAMBDA x : x[1] = "enc")[i][2],
                                     <<>>, 0)],
                          rel, Untouched)
    /\ Observe

Destroy == \E ctx \in HandleArgs : opus_frame_encoder_destroy(ctx)

\* ------------------- opus_frame_encoder_set_bitrate / opus_frame_encoder_set_complexity

\* Lines 81 and 89: the precondition test of both controls.
CtlRejects(ctx) == ctx = NULL \/ ctxs[ctx].encoder = NULL

\* Mutant: set_complexity was pasted from set_bitrate and kept its identifier.
ComplexityRequest_Pasted == OPUS_SET_BITRATE_REQUEST

\* The control identifiers the two entry points pass to opus_encoder_ctl.
BitrateRequest == OPUS_SET_BITRATE_REQUEST
ComplexityRequest == OPUS_SET_COMPLEXITY_REQUEST

\* The common shape of lines 80-85 and 88-93.
Control(op, ctx, request, value) ==
    /\ CanCall
    /\ nCalls' = nCalls + 1
    /\ IF CtlRejects(ctx)
       THEN /\ last' = Call(op, ctx, <<value>>, WrapperError, <<>>, <<>>, Untouched)
            /\ UNCHANGED <<ctxs, encs, fatal>>
       ELSE LET e == EncoderOf(ctx)
                r == EngineCtl(encs[e], request, value)
            IN /\ encs' = [encs EXCEPT ![e] = r.st]
               /\ last' = Call(op, ctx, <<value>>, r.ret,
                               <<EngCall("ctl", e, <<request, value>>, r.ret)>>,
                               <<>>, Untouched)
               /\ UNCHANGED <<ctxs, fatal>>
    /\ Observe

opus_frame_encoder_set_bitrate(ctx, bitrate) ==
    Control("setBitrate", ctx, BitrateRequest, bitrate)

opus_frame_encoder_set_complexity(ctx, complexity) ==
    Control("setComplexity", ctx, ComplexityRequest, complexity)

SetBitrate ==
    \E ctx \in HandleArgs, bitrate \in Bitrates :
      opus_frame_encoder_set_bitrate(ctx, bitrate)

SetComplexity ==
    \E ctx \in HandleArgs, complexity \in Complexities :
      opus_frame_encoder_set_complexity(ctx, complexity)

\* ------------------------------------------------------------ specification

Next ==
    \/ Create
    \/ GetFrameSize
    \/ Encode
    \/ SetBitrate
    \/ SetComplexity
    \/ Destroy

Spec == Init /\ [][Next]_vars

\* A caller that runs two contexts side by side: it calls create until it holds
\* two contexts made with the same arguments, and from then on calls only on
\* these two, giving both the same calls with the same arguments, one context
\* after the other; it destroys neither.
InStep ==
    /\ twin.phase = "none" => last'.op = "create"
    /\ twin.phase # "none" =>
         (twin'.phase # "none" /\ last'.h \in {twin.a, twin.b})

InitTwins == scope \in TwinScopes /\ Start

NextTwins ==
    \/ Create /\ InStep
    \/ GetFrameSize /\ InStep
    \/ Encode /\ InStep
    \/ SetBitrate /\ InStep
    \/ SetComplexity /\ InStep

SpecTwins == InitTwins /\ [][NextTwins]_vars

\* ================================================================= claims

\* A step is a call of the named entry point.
Called(op) == last'.op = op /\ nCalls' = nCalls + 1

\* Nothing on either heap changes in a step.
HeapsUnchanged == ctxs' = ctxs /\ encs' = encs

\* ---------------------------------------------------------------------- C1
\* C1: whenever create returns NULL (malloc failed, the engine reported a
\* non-success status, or the engine returned no instance), the sets of
\* allocated contexts and of allocated engine instances are the same after the
\* call as before it, for every combination of engine status and instance.
C1_FailedCreateLeavesNothing ==
    [][(Called("create") /\ last'.ret = NULL)
         => (DOMAIN ctxs' = DOMAIN ctxs /\ DOMAIN encs' = DOMAIN encs)]_vars

\* ---------------------------------------------------------------------- C2
\* C2: in every reachable state every live context has a non-null engine handle
\* and fully set sample_rate, channels and frame_size; each live engine
\* instance is referenced by exactly one live context, so there are as many
\* live engine instances as live contexts.
C2_LiveContextsFullyValid ==
    /\ \A h \in DOMAIN ctxs :
         /\ ctxs[h].encoder # NULL
         /\ ctxs[h].encoder \in DOMAIN encs
         /\ ctxs[h].sample_rate \in ValidRates
         /\ ctxs[h].channels \in {1, 2}
         /\ ctxs[h].frame_size * 50 = ctxs[h].sample_rate
    /\ \A e \in DOMAIN encs :
         Cardinality({h \in DOMAIN ctxs : ctxs[h].encoder = e}) = 1
    /\ Cardinality(DOMAIN encs) = Cardinality(DOMAIN ctxs)

\* ---------------------------------------------------------------------- C3
\* The arguments of the last create were a supported configuration.
LastCreateSupported ==
    /\ last.op = "create"
    /\ last.a[1] \in ValidRates
    /\ last.a[2] \in {1, 2}
    /\ last.a[3] \in {OPUS_APPLICATION_VOIP, OPUS_APPLICATION_AUDIO}

\* From creation to destruction getFrameSize returns sample_rate / 50 of the
\* context, whose fields are those create was given.
C3_FrameSizeState ==
    /\ \A h \in DOMAIN ctxs :
         /\ ctxs[h].sample_rate \in ValidRates
         /\ ctxs[h].channels \in {1, 2}
         /\ ctxs[h].frame_size = ctxs[h].sample_rate \div 50
    /\ (last.op = "create" /\ last.ret # NULL) =>
         /\ last.ret \in DOMAIN ctxs
         /\ ctxs[last.ret].sample_rate = last.a[1]
         /\ ctxs[last.ret].channels = last.a[2]
    /\ (last.op = "getFrameSize" /\ last.h # NULL) =>
         last.ret = ctxs[last.h].sample_rate \div 50

\* No call other than destroy changes a live context's fields.
C3_FieldsFixed ==
    \A h \in DOMAIN ctxs :
      /\ h \in DOMAIN ctxs' => ctxs'[h] = ctxs[h]
      /\ h \notin DOMAIN ctxs' => (Called("destroy") /\ last'.h = h)

\* C3 as stated: for every supported sample rate and channel count create
\* succeeds, and until destroy getFrameSize returns sample_rate / 50 whatever
\* calls are made in between, none of which changes the context's fields.
C3_CreateAlwaysSucceeds ==
    /\ LastCreateSupported => last.ret # NULL
    /\ C3_FrameSizeState

\* C3 amended: for every supported configuration create succeeds whenever
\* malloc returns memory and the engine returns an instance with OPUS_OK (it
\* returns NULL otherwise); the rest as stated.
C3_CreateSucceedsWhenAllocated ==
    /\ [](/\ (LastCreateSupported /\ Len(last.eng) = 1
                /\ last.eng[1].ret = OPUS_OK /\ last.eng[1].enc # NULL)
               => (last.ret # NULL /\ ctxs[last.ret].encoder = last.eng[1].enc)
          /\ (last.op = "create" /\ last.ret # NULL)
               => (LastCreateSupported /\ Len(last.eng) = 1
                     /\ last.eng[1].ret = OPUS_OK /\ last.eng[1].enc # NULL)
          /\ C3_FrameSizeState)
    /\ [][C3_FieldsFixed]_vars

\* A 8000 Hz context answers 160 after its bitrate was set and a frame encoded.
C3_Witness ==
    /\ last.op = "getFrameSize"
    /\ last.h # NULL
    /\ last.ret = 160
    /\ encs[ctxs[last.h].encoder].bitrate = 6000
    /\ encs[ctxs[last.h].encoder].frames = 1

\* ---------------------------------------------------------------------- C4
\* The last call violated a wrapper-level precondition.
C4_Violation(c) ==
    \/ c.op = "encode" /\ (c.h = NULL \/ c.a[1] = NULL \/ c.a[3] = NULL)
    \/ c.op \in {"setBitrate", "setComplexity", "getFrameSize"} /\ c.h = NULL

\* C4: a call with a null handle (encode also: a null PCM or output pointer)
\* returns its sentinel (-1; getFrameSize 0), invokes no engine function,
\* leaves the output buffer unwritten and changes no context or engine state.
C4_PreconditionViolationIsInert ==
    /\ [](C4_Violation(last) =>
            /\ last.ret = (IF last.op = "getFrameSize" THEN 0 ELSE -1)
            /\ last.eng = <<>>
            /\ last.rel = <<>>
            /\ last.out = Untouched)
    /\ [][(nCalls' = nCalls + 1 /\ C4_Violation(last'))
            => (HeapsUnchanged /\ fatal' = fatal)]_vars

\* encode on a live handle with a null PCM pointer was refused.
C4_Witness ==
    /\ last.op = "encode"
    /\ last.h \in DOMAIN ctxs
    /\ last.a[1] = NULL
    /\ last.a[3] # NULL
    /\ last.ret = -1

\* ---------------------------------------------------------------------- C5
\* C5: encode on a live handle with non-null buffers invokes the engine's
\* encode exactly once, on the context's own instance, with the caller's PCM
\* buffer, output buffer and capacity unchanged, and returns exactly what the
\* engine returned, negative statuses included.
C5_EncodePassesThrough ==
    (last.op = "encode" /\ last.h # NULL /\ last.a[1] # NULL /\ last.a[3] # NULL)
      => /\ Len(last.eng) = 1
         /\ last.eng[1].fn = "encode"
         /\ last.eng[1].enc = ctxs[last.h].encoder
         /\ last.eng[1].a[1] = last.a[1]
         /\ last.eng[1].a[3] = last.a[3]
         /\ last.eng[1].a[4] = last.a[4]
         /\ last.ret = last.eng[1].ret

\* The engine refused with OPUS_BUFFER_TOO_SMALL and encode returned just that.
C5_Witness ==
    /\ last.op = "encode"
    /\ Len(last.eng) = 1
    /\ last.eng[1].ret = OPUS_BUFFER_TOO_SMALL
    /\ last.ret = -2

\* ---------------------------------------------------------------------- C6
\* The last call was an encode that reached the engine.
EncodeReachedEngine == last.op = "encode" /\ Len(last.eng) = 1

\* C6 as stated: the sample count handed to the engine is
\* pcm_length / 2 / channels in signed division truncating toward zero, for
\* every pcm_length, negative ones included.
C6_SignedDivision ==
    EncodeReachedEngine =>
      last.eng[1].a[2] = CDiv(CDiv(last.a[2], 2), ctxs[last.h].channels)

\* C6 amended: for pcm_length >= 0 the sample count is pcm_length / 2 / channels
\* (so frame_size * channels * 2 bytes give frame_size samples).  A negative
\* pcm_length is divided as the unsigned size_t value pcm_length + 2^bits and
\* the quotient converted to int: with a 32-bit size_t that is
\* ((pcm_length + 2^32) / 2) / channels, a large positive count; with a 64-bit
\* size_t it is pcm_length / 2 / channels with both divisions rounding toward
\* minus infinity, not toward zero.
C6_UnsignedDivision ==
    EncodeReachedEngine =>
      /\ last.a[2] >= 0 =>
           last.eng[1].a[2] = (last.a[2] \div 2) \div ctxs[last.h].channels
      /\ (last.a[2] < 0 /\ scope.size_t_bits = 32) =>
           last.eng[1].a[2] =
             ((INT_MAX + (last.a[2] \div 2)) + 1) \div ctxs[last.h].channels
      /\ (last.a[2] < 0 /\ scope.size_t_bits = 64) =>
           last.eng[1].a[2] = (last.a[2] \div 2) \div ctxs[last.h].channels
      /\ last.a[2] = ctxs[last.h].frame_size * ctxs[last.h].channels * 2 =>
           last.eng[1].a[2] = ctxs[last.h].frame_size

\* -4 bytes on a stereo context reached the engine as 1073741823 samples in a
\* build with a 32-bit size_t.
C6_Witness ==
    /\ EncodeReachedEngine
    /\ scope.size_t_bits = 32
    /\ last.a[2] = -4
    /\ ctxs[last.h].channels = 2
    /\ last.eng[1].a[2] = 1073741823

\* ---------------------------------------------------------------------- C7
\* The engine state behind a live handle.
EngineOf(h) == encs[ctxs[h].encoder]

\* What each control does when called on a live handle: one ctl call on the
\* context's own instance under the control's own identifier, the engine's
\* status returned; an in-range value is accepted and is then the setting.
C7_ControlState(op, request, setting, inRange) ==
    (last.op = op /\ last.h # NULL) =>
      /\ Len(last.eng) = 1
      /\ last.eng[1].fn = "ctl"
      /\ last.eng[1].enc = ctxs[last.h].encoder
      /\ last.eng[1].a = <<request, last.a[1]>>
      /\ last.ret = last.eng[1].ret
      /\ inRange => (last.ret >= 0 /\ setting = last.a[1])

\* C7 as stated: the controls may be called any number of times, in any order,
\* between encodes; each forwards its value under its own identifier and
\* returns the engine's status, and the bitrate and the complexity in effect
\* are those of the latest setBitrate and the latest setComplexity call.
C7_LatestCallInEffect ==
    /\ C7_ControlState("setBitrate", OPUS_SET_BITRATE_REQUEST,
                       EngineOf(last.h).bitrate, last.a[1] > 0)
    /\ C7_ControlState("setComplexity", OPUS_SET_COMPLEXITY_REQUEST,
                       EngineOf(last.h).complexity,
                       last.a[1] >= 0 /\ last.a[1] <= 10)
    /\ (last.op = "setBitrate" /\ last.h # NULL) =>
         EngineOf(last.h).bitrate = last.a[1]
    /\ (last.op = "setComplexity" /\ last.h # NULL) =>
         EngineOf(last.h).complexity = last.a[1]

\* A setting of an instance changes only in a step that is the matching
\* control, called on the context owning the instance, and accepted by the
\* engine; an encode that succeeds emits a packet made with the settings the
\* instance held when it was called.
C7_SettingsStep ==
    /\ \A e \in DOMAIN encs \cap DOMAIN encs' :
         /\ encs'[e].bitrate # encs[e].bitrate =>
              /\ Called("setBitrate")
              /\ last'.h # NULL /\ ctxs[last'.h].encoder = e
              /\ last'.ret >= 0 /\ encs'[e].bitrate = last'.a[1]
         /\ encs'[e].complexity # encs[e].complexity =>
              /\ Called("setComplexity")
              /\ last'.h # NULL /\ ctxs[last'.h].encoder = e
              /\ last'.ret >= 0 /\ encs'[e].complexity = last'.a[1]
    /\ (Called("encode") /\ last'.out # Untouched) =>
         /\ last'.out[2] = EngineOf(last'.h).bitrate
         /\ last'.out[3] = EngineOf(last'.h).complexity

\* C7 amended: as stated, except that the settings in effect are those of the
\* latest setBitrate and the latest setComplexity call the engine accepted; a
\* call the engine refuses (negative status) leaves the setting as it was.
C7_LatestAcceptedCallInEffect ==
    /\ [](/\ C7_ControlState("setBitrate", OPUS_SET_BITRATE_REQUEST,
                             EngineOf(last.h).bitrate, last.a[1] > 0)
          /\ C7_ControlState("setComplexity", OPUS_SET_COMPLEXITY_REQUEST,
                             EngineOf(last.h).complexity,
                             last.a[1] >= 0 /\ last.a[1] <= 10))
    /\ [][C7_SettingsStep]_vars

\* After setBitrate, an encode and an accepted setComplexity both settings are
\* in effect on the instance.
C7_Witness ==
    /\ last.op = "setComplexity"
    /\ last.h # NULL
    /\ last.ret = 0
    /\ EngineOf(last.h).complexity = 10
    /\ EngineOf(last.h).bitrate = 64000
    /\ EngineOf(last.h).frames = 1

\* ---------------------------------------------------------------------- C8
\* destroy(NULL) releases nothing and changes nothing; destroy on a live handle
\* releases the context's engine instance, then the context, each once, and
\* leaves every other context and instance as it was.
C8_DestroyStep ==
    Called("destroy") =>
      IF last'.h = NULL
      THEN HeapsUnchanged /\ last'.rel = <<>> /\ last'.eng = <<>>
      ELSE /\ last'.rel = <<<<"enc", ctxs[last'.h].encoder>>, <<"ctx", last'.h>>>>
           /\ DOMAIN ctxs' = DOMAIN ctxs \ {last'.h}
           /\ DOMAIN encs' = DOMAIN encs \ {ctxs[last'.h].encoder}
           /\ \A h \in DOMAIN ctxs' : ctxs'[h] = ctxs[h]
           /\ \A e \in DOMAIN encs' : encs'[e] = encs[e]

\* C8: destroy(NULL) is a no-op; destroy on a live handle releases the engine
\* instance first and the context second, each exactly once, and touches no
\* other context; once every created handle has been destroyed, no engine
\* instance and no context remains allocated, whatever was called in between.
C8_DestroyLeavesNothing ==
    /\ [](DOMAIN ctxs = {} => DOMAIN encs = {})
    /\ [][C8_DestroyStep]_vars

\* ---------------------------------------------------------------------- C9
\* C9: no call on a null or live handle, with whatever integer arguments,
\* reaches a fatal step in the wrapper; in particular no live context holds a
\* zero channel count, so encode never divides by zero.
C9_NoFatalStep ==
    /\ ~fatal
    /\ \A h \in DOMAIN ctxs : ctxs[h].channels # 0

\* create was called with zero channels and returned NULL without a trap.
C9_Witness ==
    /\ last.op = "create"
    /\ last.a[2] = 0
    /\ Len(last.eng) = 1
    /\ last.ret = NULL
    /\ DOMAIN ctxs # {}
    /\ ~fatal

\* --------------------------------------------------------------------- C10
\* C10: two freshly constructed handles with the same sample rate, channel
\* count and application profile that are given the same calls (setBitrate,
\* setComplexity, encode of the same frame, getFrameSize) return the same value
\* and produce the same output for each corresponding call, with whatever
\* calls on other handles in between: when one twin repeats the call pending
\* on the other, it gets the result the other got; twins that have had the
\* same calls hold equal engine state; and a call changes the engine state of
\* no instance but the one owned by the handle it is made on.
C10_TwinsAgree ==
    /\ [](twin.phase = "even" =>
            /\ EngineOf(twin.a) = EngineOf(twin.b)
            /\ ctxs[twin.a].sample_rate = ctxs[twin.b].sample_rate
            /\ ctxs[twin.a].channels = ctxs[twin.b].channels
            /\ ctxs[twin.a].frame_size = ctxs[twin.b].frame_size)
    /\ [][/\ (twin.phase = "odd" /\ twin'.phase = "even") =>
               (last'.ret = twin.pend.ret /\ last'.out = twin.pend.out)
          /\ \A e \in DOMAIN encs \cap DOMAIN encs' :
               encs'[e] # encs[e] => (last'.h # NULL /\ ctxs[last'.h].encoder = e)
         ]_vars

\* Both twins had setBitrate(6000), setComplexity(10) and three frames, and the
\* third frame, encoded under these settings, gave both the same non-empty
\* packet.
C10_Witness ==
    /\ twin.phase = "even"
    /\ last.op = "encode"
    /\ last.h = twin.b
    /\ last.ret > 0
    /\ last.out # Untouched
    /\ last.out[2] = 6000
    /\ last.out[3] = 10
    /\ last.out[4] = 2
    /\ EngineOf(twin.a).frames = 3
    /\ EngineOf(twin.b).frames = 3
    /\ EngineOf(twin.b).bitrate = 6000
    /\ EngineOf(twin.b).complexity = 10

====
